---- MODULE Spec2Model ----
(***************************************************************************)
(* A model of circular_vector<T> (src/circular_vector.hpp): a store of     *)
(* capacity() raw slots and two spans over it, first_span_ (the Front Run, *)
(* right edge at the store's end) and second_span_ (the Back Run, left     *)
(* edge at the store's start).                                             *)
(*                                                                         *)
(* Pointers are slot indices relative to storage_.data(): slot i of a      *)
(* store of capacity c is live memory for 0 <= i < c, and c is the         *)
(* one-past-the-end address.                                               *)
(*                                                                         *)
(* Reading conventions.  Where the text of the header has a run-time       *)
(* meaning the model follows it to the letter (the assignment inside the   *)
(* condition of operator--, begin() taken from first_span_ alone, front()  *)
(* and back() taken from one span each, the defaulted move constructor,    *)
(* the allocator whose destroy does nothing).  Where the text only names   *)
(* something (first_span for first_span_, second_span for second_span_,    *)
(* first_span_size as a local, last - first on cursors, std::swap of two   *)
(* containers) the model takes the thing named: the member, the local,     *)
(* the number of elements of the range, the exchange of all three members. *)
(*                                                                         *)
(* A read of a slot that is outside the store or holds no constructed      *)
(* element is undefined: it yields any element value.  A span operation    *)
(* outside its precondition (first/last with a count above size()) is      *)
(* undefined too: the model records what an unchecked build leaves in the  *)
(* members (a size that wrapped below zero is written as its negative      *)
(* residue), raises ub for good and goes on from those members.            *)
(***************************************************************************)
EXTENDS Integers, Sequences, FiniteSets, TLC

\* ---------------------------------------------------------------- bounds
MaxVal  == 1      \* element values are 0..MaxVal
MaxCap  == 3      \* no store larger than this is requested
MaxOps  == 4      \* pushes plus pops in one run
InitCap == 1      \* largest capacity handed to the constructor
MaxPushes == 6    \* pushes in a run of pushes only (SpecPushes)

Values == 0 .. MaxVal

\* A slot of the store on which no element has been constructed.
Raw == -1

VARIABLES
  storage_,      \* the store: storage_[i+1] is slot i, Raw or an element
  first_span_,   \* [data, size] of the Front Run
  second_span_,  \* [data, size] of the Back Run
  moved_to,      \* <<>> or <<D>>: the container move-constructed from this one
  ub,            \* a span precondition has been broken at some point of the run
  ref,           \* the reference double-ended queue driven by the same calls
  pushes,        \* completed push_front/push_back calls
  pops,          \* completed pop_front/pop_back calls
  hist,          \* shape of the call history so far
  fresh,         \* the run so far: successful pushes only, from capacity 0
  copies,        \* elements copy-constructed by migrations while fresh
  last           \* the call just made and what it did

vars == <<storage_, first_span_, second_span_, moved_to, ub, ref, pushes, pops, hist,
          fresh, copies, last>>

\* The container as a value.
This == [storage_ |-> storage_, first_span_ |-> first_span_, second_span_ |-> second_span_]

\* ---------------------------------------------------------------- queries
capacity(c) == Len(c.storage_)

size(c) == c.first_span_.size + c.second_span_.size

InStore(c, i) == i \in 0 .. (capacity(c) - 1)

SlotAt(c, i) == IF InStore(c, i) THEN c.storage_[i + 1] ELSE Raw

\* Slot i holds a constructed element.
Live(c, i) == SlotAt(c, i) # Raw

\* The values a read of slot i can produce.
Read(c, i) == IF SlotAt(c, i) # Raw THEN {SlotAt(c, i)} ELSE Values

\* The slots a span covers, in order (none of the store's once its size has
\* wrapped).
SpanSlots(sp) == [k \in 1 .. (IF sp.size < 0 THEN 0 ELSE sp.size) |-> sp.data + k - 1]

first_span(c) == c.first_span_

second_span(c) == c.second_span_

\* Front Run read from its start to its end, then Back Run likewise.
LogicalSlots(c) == SpanSlots(first_span(c)) \o SpanSlots(second_span(c))

Logical(c) == [k \in 1 .. Len(LogicalSlots(c)) |-> SlotAt(c, LogicalSlots(c)[k])]

\* front(): first_span_.front(), i.e. *first_span_.data().
front(c) == Read(c, c.first_span_.data)

\* back(): second_span_.back(), i.e. *(second_span_.data() + size - 1).
back(c) == Read(c, c.second_span_.data + c.second_span_.size - 1)

\* ---------------------------------------------------------------- iterator
iterator(current, first_span_end, second_span_begin) ==
  [current |-> current, first_span_end |-> first_span_end, second_span_begin |-> second_span_begin]

begin(c) ==
  iterator(first_span(c).data, first_span(c).data + first_span(c).size, second_span(c).data)

end(c) ==
  iterator(second_span(c).data + second_span(c).size,
           first_span(c).data + first_span(c).size, second_span(c).data)

\* operator++: step, then jump to the Back Run if the Front Run's end was reached.
Increment(it) ==
  LET stepped == it.current + 1
  IN  [it EXCEPT !.current = IF stepped = it.first_span_end THEN it.second_span_begin ELSE stepped]

\* operator--: "if(current_ = second_span_begin_)" assigns, and the value
\* assigned is the address of a store of a non-empty container, which is not
\* null: the branch is always taken.
Decrement(it) ==
  LET assigned == it.second_span_begin
      jumped   == it.first_span_end
  IN  [it EXCEPT !.current = jumped - 1]

RECURSIVE Advance(_, _)
Advance(it, n) == IF n = 0 THEN it ELSE Advance(Increment(it), n - 1)

RECURSIVE Retreat(_, _)
Retreat(it, n) == IF n = 0 THEN it ELSE Retreat(Decrement(it), n - 1)

\* ---------------------------------------------------------------- construction
\* circular_vector(capacity): a store of raw slots, both runs empty.
CapacityCtor(cap) ==
  [storage_     |-> [i \in 1 .. cap |-> Raw],
   first_span_  |-> [data |-> cap, size |-> 0],
   second_span_ |-> [data |-> 0, size |-> 0]]

\* circular_vector(capacity, first, last), src being the elements the two
\* copies read from the source range: size = last - first is their number,
\* the first copy takes first_span_size of them into the Front Run and the
\* second copy, from "middle", takes the rest into the Back Run (middle is
\* read as the source position the first copy stopped at).
RangeCtor(cap, src) ==
  LET base             == CapacityCtor(cap)
      n                == Len(src)
      first_span_size  == (n + 1) \div 2
      second_span_size == n \div 2
      fs == [data |-> base.first_span_.data - first_span_size, size |-> first_span_size]
      ss == [data |-> base.second_span_.data, size |-> second_span_size]
  IN  [storage_ |-> [i \in 1 .. cap |->
                       IF i - 1 >= fs.data /\ i - 1 < fs.data + fs.size
                         THEN src[i - fs.data]
                       ELSE IF i - 1 >= ss.data /\ i - 1 < ss.data + ss.size
                         THEN src[first_span_size + i - ss.data]
                       ELSE Raw],
       first_span_  |-> fs,
       second_span_ |-> ss]

\* The slots the copies of the range constructor read when the range is
\* [begin(c), end(c)): element k is read through begin(c) advanced k-1 times.
MigrationSlots(c) == [k \in 1 .. size(c) |-> Advance(begin(c), k - 1).current]

\* What those reads can produce.
MigrationReads(c) ==
  {s \in [1 .. size(c) -> Values] :
     \A k \in 1 .. size(c) : s[k] \in Read(c, MigrationSlots(c)[k])}

\* ---------------------------------------------------------------- failures
NoFailure == [kind |-> "none", k |-> 0]

AllocFailure == [kind |-> "alloc", k |-> 0]

CopyFailure(k) == [kind |-> "copy", k |-> k]

\* reserve grows only for a request above the capacity.
NeedsGrowth_mut(c, new_capacity) == new_capacity >= capacity(c)

NeedsGrowth_size(c, new_capacity) == new_capacity > size(c)

NeedsGrowth(c, new_capacity) == new_capacity > capacity(c)

\* The ways a reserve(new_capacity) can go: without growth nothing can
\* fail; a growth allocates one store and copy-constructs size() elements.
Failures(c, new_capacity) ==
  IF NeedsGrowth(c, new_capacity)
    THEN {NoFailure, AllocFailure} \cup {CopyFailure(k) : k \in 1 .. size(c)}
    ELSE {NoFailure}

\* The container after reserve(new_capacity): new_self is built aside and
\* swapped in only once its constructor has returned.
reserve_mut(c, new_capacity, src, fail) ==
  IF NeedsGrowth(c, new_capacity)
    THEN IF fail.kind = "none" THEN RangeCtor(new_capacity, src)
         ELSE CapacityCtor(new_capacity)
    ELSE c

reserve(c, new_capacity, src, fail) ==
  IF NeedsGrowth(c, new_capacity) /\ fail.kind = "none"
    THEN RangeCtor(new_capacity, src)
    ELSE c

\* The element sequences a reserve(new_capacity) can hand on to the store it
\* adopts: nothing is adopted without growth or when the growth fails.
Sources(c, new_capacity, fail) ==
  IF NeedsGrowth(c, new_capacity) /\ fail.kind = "none" THEN MigrationReads(c) ELSE {<<>>}

\* Elements constructed in new_self's store and not destroyed when the
\* failure leaves the constructor: each copy undoes only its own work, and
\* the store's allocator destroys nothing.
Undestroyed(n, fail) ==
  LET first_span_size == (n + 1) \div 2
  IN  IF fail.kind = "copy" /\ fail.k > first_span_size THEN first_span_size ELSE 0

\* Whether new_self's store has been given back when the failure leaves
\* reserve: the vector member releases it; a failed allocation has none.
Released(fail) == fail.kind = "copy"

\* Whether every slot a reserve(new_capacity) reads holds an element: a
\* migration reads through the cursor up to the copy that fails, or all
\* size() elements.
ReadsLive(c, new_capacity, fail) ==
  LET reads == IF fail.kind = "copy" THEN fail.k ELSE size(c)
  IN  (NeedsGrowth(c, new_capacity) /\ fail.kind # "alloc")
        => \A k \in 1 .. reads : Live(c, MigrationSlots(c)[k])

\* Elements of the old store that no one has destroyed when a successful
\* reserve returns: new_self leaves scope holding the old store, whose
\* vector releases the memory through an allocator whose destroy does
\* nothing, and the class has no destructor of its own.
OldUndestroyed(c, new_capacity, fail) ==
  IF NeedsGrowth(c, new_capacity) /\ fail.kind = "none"
    THEN Cardinality({i \in 0 .. (capacity(c) - 1) : Live(c, i)})
    ELSE 0

\* ---------------------------------------------------------------- calls
Call(op, arg, c, new_capacity, fail) ==
  [op         |-> op,
   arg        |-> arg,
   threw      |-> fail.kind # "none",
   grew       |-> NeedsGrowth(c, new_capacity) /\ fail.kind = "none",
   allocated  |-> NeedsGrowth(c, new_capacity) /\ fail.kind # "alloc",
   failed_at  |-> fail.k,
   leaked     |-> Undestroyed(size(c), fail),
   released   |-> Released(fail),
   access_ok  |-> ReadsLive(c, new_capacity, fail),
   old_undestroyed |-> OldUndestroyed(c, new_capacity, fail),
   wrote_ok   |-> TRUE]

Running == Len(moved_to) = 0

NextHist(op) ==
  IF op = "push_back" /\ hist \in {"empty", "pushed"} THEN "pushed"
  ELSE IF op = "reserve" /\ hist \in {"empty", "pushed"} THEN "reserved"
  ELSE "other"

Init ==
  /\ \E cap \in 0 .. InitCap :
       /\ storage_ = CapacityCtor(cap).storage_
       /\ first_span_ = CapacityCtor(cap).first_span_
       /\ second_span_ = CapacityCtor(cap).second_span_
  /\ moved_to = <<>>
  /\ ub = FALSE
  /\ ref = <<>>
  /\ pushes = 0
  /\ pops = 0
  /\ hist = "empty"
  /\ fresh = (capacity(This) = 0)
  /\ copies = 0
  /\ last = Call("init", 0, CapacityCtor(0), 0, NoFailure)

\* std::construct_at on slot i: the store with the element in it; a write
\* outside the store lands in memory the model does not hold.
construct_at(c, i, value) ==
  IF InStore(c, i) THEN [c.storage_ EXCEPT ![i + 1] = value] ELSE c.storage_

\* std::destroy_at on slot i.
destroy_at(c, i) ==
  IF InStore(c, i) THEN [c.storage_ EXCEPT ![i + 1] = Raw] ELSE c.storage_

\* Slot i is inside the store and holds no element: a write there neither
\* leaves the allocated range nor lands on live data.
WritesFree(c, i) == InStore(c, i) /\ ~Live(c, i)

\* span::last(count) keeping the left end instead of the right one.
span_last_mut(sp, count) == [data |-> sp.data, size |-> count]

\* span::last(count) and span::first(count) as an unchecked build computes
\* them: the last, or the first, count slots of the span.
span_last(sp, count) == [data |-> sp.data + (sp.size - count), size |-> count]

span_first(sp, count) == [data |-> sp.data, size |-> count]

\* Elements a successful reserve(new_capacity) copy-constructs.
Migrated(c, new_capacity) == IF NeedsGrowth(c, new_capacity) THEN size(c) ELSE 0

\* A call other than a successful push ends the run of pushes only.
Stale == fresh' = FALSE /\ copies' = 0

Adopt(c) ==
  /\ storage_' = c.storage_
  /\ first_span_' = c.first_span_
  /\ second_span_' = c.second_span_

PushFront(max_ops, max_cap) ==
  /\ Running
  /\ pushes + pops < max_ops
  /\ size(This) + 1 <= max_cap
  /\ \E value \in Values, fail \in Failures(This, size(This) + 1) :
     \E src \in Sources(This, size(This) + 1, fail) :
       LET c  == reserve(This, size(This) + 1, src, fail)
           fs == [data |-> c.first_span_.data - 1, size |-> c.first_span_.size + 1]
       IN  /\ last' = [Call("push_front", 0, This, size(This) + 1, fail)
                         EXCEPT !.wrote_ok = fail.kind # "none" \/ WritesFree(c, fs.data)]
           /\ IF fail.kind # "none"
                THEN /\ Adopt(c)
                     /\ hist' = "other"
                     /\ Stale
                     /\ UNCHANGED <<ref, pushes>>
                ELSE /\ Adopt([c EXCEPT !.first_span_ = fs,
                                        !.storage_ = construct_at(c, fs.data, value)])
                     /\ ref' = <<value>> \o ref
                     /\ pushes' = pushes + 1
                     /\ hist' = NextHist("push_front")
                     /\ fresh' = fresh
                     /\ copies' = IF fresh THEN copies + Migrated(This, size(This) + 1) ELSE 0
  /\ UNCHANGED <<moved_to, ub, pops>>

PushBack(max_ops, max_cap) ==
  /\ Running
  /\ pushes + pops < max_ops
  /\ size(This) + 1 <= max_cap
  /\ \E value \in Values, fail \in Failures(This, size(This) + 1) :
     \E src \in Sources(This, size(This) + 1, fail) :
       LET c  == reserve(This, size(This) + 1, src, fail)
           ss == [data |-> c.second_span_.data, size |-> c.second_span_.size + 1]
       IN  /\ last' = [Call("push_back", 0, This, size(This) + 1, fail)
                         EXCEPT !.wrote_ok = fail.kind # "none" \/ WritesFree(c, ss.data + ss.size - 1)]
           /\ IF fail.kind # "none"
                THEN /\ Adopt(c)
                     /\ hist' = "other"
                     /\ Stale
                     /\ UNCHANGED <<ref, pushes>>
                ELSE /\ Adopt([c EXCEPT !.second_span_ = ss,
                                        !.storage_ = construct_at(c, ss.data + ss.size - 1, value)])
                     /\ ref' = ref \o <<value>>
                     /\ pushes' = pushes + 1
                     /\ hist' = NextHist("push_back")
                     /\ fresh' = fresh
                     /\ copies' = IF fresh THEN copies + Migrated(This, size(This) + 1) ELSE 0
  /\ UNCHANGED <<moved_to, ub, pops>>

push_front == PushFront(MaxOps, MaxCap)

push_back == PushBack(MaxOps, MaxCap)

\* pop_front: destroy_at(&front()), then first_span_.last(size - 1).  On an
\* empty Front Run the count wraps to the largest size_t (written -1, its
\* residue) and last() is outside its precondition.
pop_front ==
  /\ Running
  /\ pushes + pops < MaxOps
  /\ size(This) > 0
  /\ LET count == first_span_.size - 1
         slot  == first_span_.data
     IN  /\ first_span_' = span_last(first_span_, count)
         /\ storage_' = destroy_at(This, slot)
         /\ ub' = (ub \/ count < 0)
         /\ last' = [Call("pop_front", 0, This, 0, NoFailure) EXCEPT !.access_ok = Live(This, slot)]
  /\ ref' = Tail(ref)
  /\ pops' = pops + 1
  /\ hist' = NextHist("pop_front")
  /\ Stale
  /\ UNCHANGED <<second_span_, moved_to, pushes>>

\* pop_back: destroy_at(&back()), then second_span_.first(size - 1).
pop_back ==
  /\ Running
  /\ pushes + pops < MaxOps
  /\ size(This) > 0
  /\ LET count == second_span_.size - 1
         slot  == second_span_.data + second_span_.size - 1
     IN  /\ second_span_' = span_first(second_span_, count)
         /\ storage_' = destroy_at(This, slot)
         /\ ub' = (ub \/ count < 0)
         /\ last' = [Call("pop_back", 0, This, 0, NoFailure) EXCEPT !.access_ok = Live(This, slot)]
  /\ ref' = SubSeq(ref, 1, Len(ref) - 1)
  /\ pops' = pops + 1
  /\ hist' = NextHist("pop_back")
  /\ Stale
  /\ UNCHANGED <<first_span_, moved_to, pushes>>

Reserve ==
  /\ Running
  /\ \E new_capacity \in 0 .. MaxCap :
       \E fail \in Failures(This, new_capacity) :
       \E src \in Sources(This, new_capacity, fail) :
         /\ Adopt(reserve(This, new_capacity, src, fail))
         /\ last' = Call("reserve", new_capacity, This, new_capacity, fail)
         /\ hist' = IF fail.kind = "none" THEN NextHist("reserve") ELSE "other"
  /\ Stale
  /\ UNCHANGED <<moved_to, ub, ref, pushes, pops>>

\* circular_vector(circular_vector&&) = default: the vector member is moved
\* (the source is left with no store), the two spans are copied.
MoveCtor(c) ==
  [dst |-> c, src |-> [c EXCEPT !.storage_ = <<>>]]

MoveConstruct ==
  /\ Running
  /\ moved_to' = <<MoveCtor(This).dst>>
  /\ Adopt(MoveCtor(This).src)
  /\ last' = Call("move", 0, This, 0, NoFailure)
  /\ hist' = "other"
  /\ Stale
  /\ UNCHANGED <<ub, ref, pushes, pops>>

Next ==
  \/ push_front
  \/ push_back
  \/ pop_front
  \/ pop_back
  \/ Reserve
  \/ MoveConstruct

Spec == Init /\ [][Next]_vars

\* Runs of pushes alone on a default-constructed container, long enough for
\* the cost of repeated growth to show.
InitPushes == Init /\ capacity(This) = 0

long_push_front == PushFront(MaxPushes, MaxPushes)

long_push_back == PushBack(MaxPushes, MaxPushes)

NextPushes ==
  \/ long_push_front
  \/ long_push_back

SpecPushes == InitPushes /\ [][NextPushes]_vars

TypeOK ==
  /\ ub \in BOOLEAN
  /\ Len(moved_to) \in {0, 1}
  /\ capacity(This) \in 0 .. MaxCap

\* ---------------------------------------------------------------- claims
Alive == Len(moved_to) = 0

Last(q) == q[Len(q)]

\* C1: after every push/pop call from an empty container (no pop at size 0)
\* size() is the number of pushes minus the number of pops and the logical
\* sequence is the content of the reference deque driven by the same calls.
C1_DequeRefinement ==
  (Alive /\ ~ub) => /\ size(This) = pushes - pops
                    /\ Logical(This) = ref

\* C2: whenever size() > 0, front() is the first and back() the last element
\* of the logical sequence, whichever run holds it.
C2_FrontBack ==
  (Alive /\ ~ub /\ size(This) > 0) =>
     /\ front(This) = {Logical(This)[1]}
     /\ back(This) = {Last(Logical(This))}

\* C3: a cursor from begin() reaches the position of end() after exactly
\* size() increments and on the way stands on the slots of the logical
\* sequence in order, whatever the split between the two runs.  Stated here
\* for the non-empty containers.
C3_ForwardTraversal ==
  (Alive /\ ~ub /\ size(This) > 0) =>
     /\ Advance(begin(This), size(This)).current = end(This).current
     /\ \A k \in 1 .. size(This) :
          Advance(begin(This), k - 1).current = LogicalSlots(This)[k]

\* C4: a cursor from end() reaches the position of begin() after exactly
\* size() decrements, standing after each on the slots of the logical
\* sequence in reverse; a decrement jumps to the Front Run's end only from
\* the Back Run's start and otherwise moves back one slot.  Stated here for
\* the states whose Front Run is not empty, where begin() is the first live
\* slot.
C4_BackwardTraversal ==
  (Alive /\ ~ub /\ first_span_.size > 0) =>
     /\ Retreat(end(This), size(This)).current = begin(This).current
     /\ \A k \in 1 .. size(This) :
          /\ Retreat(end(This), k).current = LogicalSlots(This)[size(This) - k + 1]
          /\ LET it == Retreat(end(This), k - 1)
             IN  it.current # it.second_span_begin
                   => Decrement(it).current = it.current - 1

\* C5: a reserve(n) with n > capacity() leaves the logical sequence and
\* size() as they were and yields capacity() >= n.
C5_ReservePreserves ==
  [][(last'.op = "reserve" /\ last'.grew) =>
        /\ Logical(This') = Logical(This)
        /\ size(This') = size(This)
        /\ capacity(This') >= last'.arg]_vars

\* C6: a reserve(n) with n <= capacity() changes nothing: the store (hence
\* capacity() and every slot), both runs, and no store is allocated.
C6_ReserveNoOp ==
  [][(last'.op = "reserve" /\ last'.arg <= capacity(This)) =>
        /\ UNCHANGED <<storage_, first_span_, second_span_>>
        /\ ~last'.allocated
        /\ ~last'.threw]_vars

\* C6 witness: a reserve(capacity()) on a non-empty container has returned.
C6_Witness ==
  /\ last.op = "reserve" /\ ~last.allocated
  /\ last.arg = capacity(This) /\ size(This) > 0

\* C7: when the allocation or the copy of some element fails during the
\* migration of a growth (from reserve, push_front or push_back), the call
\* throws and the container is as before the call: store, capacity(), runs
\* and elements, the pushed value not added.
C7_FailureAtomic ==
  [][last'.threw =>
        /\ UNCHANGED <<storage_, first_span_, second_span_>>
        /\ size(This') = size(This)]_vars

\* C7 witness: a push_back whose growth failed at the copy of its second
\* element has thrown, on a container that holds elements in both runs.
C7_Witness ==
  /\ last.op = "push_back" /\ last.threw /\ last.failed_at = 2
  /\ first_span_.size > 0 /\ second_span_.size > 0

\* C8: when the copy of the k-th element fails during a migration, every
\* element already constructed in the new store has been destroyed and the
\* new store released before the failure propagates, for k in 1..size().
C8_FailureCleansNewStore ==
  (last.threw /\ last.failed_at >= 1) => (last.leaked = 0 /\ last.released)

\* C9: after move-constructing D from S, D has the logical sequence and
\* capacity S had, and S is empty: size() = 0, both runs of length 0,
\* size() <= capacity(); no live element belongs to both.
C9_MoveEmptiesSource ==
  [][last'.op = "move" =>
        /\ Logical(moved_to'[1]) = Logical(This)
        /\ capacity(moved_to'[1]) = capacity(This)
        /\ size(This') = 0
        /\ first_span_'.size = 0 /\ second_span_'.size = 0
        /\ size(This') <= capacity(This')]_vars

\* C10: a container built from a range of N elements with capacity C >= N
\* has the layout (capacity, run lengths, element of every live slot) of one
\* built empty, filled by N pushes of the same elements and then given
\* reserve(C).  Stated here for the reserves that grow (C above the capacity
\* the pushes left).
C10_LayoutEquivalence ==
  (hist = "reserved" /\ last.grew) => This = RangeCtor(last.arg, ref)

\* C11: a push_front or push_back made while size() < capacity() triggers no
\* growth: nothing is allocated, capacity() stays, no element leaves its
\* slot; so capacity() - size() pushes are absorbed, and the push made at
\* size() = capacity() is the one that grows.
C11_NoGrowthWithSlack ==
  [][last'.op \in {"push_front", "push_back"} =>
        /\ size(This) < capacity(This) =>
             /\ ~last'.allocated /\ ~last'.grew /\ ~last'.threw
             /\ capacity(This') = capacity(This)
             /\ size(This') = size(This) + 1
             /\ \A i \in 0 .. (capacity(This) - 1) :
                  Live(This, i) => SlotAt(This', i) = SlotAt(This, i)
        /\ (size(This) = capacity(This) /\ ~last'.threw) => last'.grew]_vars

\* C11 witness: after a growth (the store is larger than any constructed
\* one) a push_front without growth has filled the store to capacity().
C11_Witness ==
  /\ last.op = "push_front" /\ ~last.grew /\ ~last.threw /\ ~ub
  /\ capacity(This) > InitCap /\ size(This) = capacity(This)

\* C12: over N consecutive pushes on an empty zero-capacity container the
\* migrations copy-construct at most a constant multiple of N elements;
\* stated with the constant of the doubling policy, 2 N.
C12_AmortizedCopies ==
  fresh => copies <= 2 * pushes

\* C13: a store populated from N elements in order (here by the growth of a
\* reserve) has a Front Run of length ceil(N/2) ending at the store's end and
\* a Back Run of length floor(N/2) starting at slot 0, and Front Run then
\* Back Run read the N elements in their original order.
C13_RecentredSplit ==
  [][(~ub /\ last'.op = "reserve" /\ last'.grew) =>
        /\ first_span_'.size = (size(This) + 1) \div 2
        /\ first_span_'.data + first_span_'.size = capacity(This')
        /\ second_span_'.size = size(This) \div 2
        /\ second_span_'.data = 0
        /\ Logical(This') = Logical(This)]_vars

\* C14: in every state reached by construction, pushes, pops (at size() > 0)
\* and reserve, both run lengths are counts of slots of the store (a length
\* that wrapped is not), they add up to size() <= capacity(), the Front Run
\* ends at capacity(), the Back Run starts at 0, and the runs do not overlap.
C14_RunDescriptor ==
  Alive =>
     /\ first_span_.size \in 0 .. capacity(This)
     /\ second_span_.size \in 0 .. capacity(This)
     /\ size(This) <= capacity(This)
     /\ first_span_.data + first_span_.size = capacity(This)
     /\ second_span_.data = 0
     /\ second_span_.data + second_span_.size <= first_span_.data

\* C15: every push_front and push_back constructs its element in a slot of
\* [0, capacity()) of the store current after any growth, a slot that held
\* no live element just before.
C15_PushWritesFreeSlot ==
  last.op \in {"push_front", "push_back"} => last.wrote_ok

\* C16: every slot inside a run holds a live element and every other slot is
\* unconstructed, and no call within its precondition (front and back at
\* size() > 0, a pop at size() > 0, the reads of a reserve) reads or destroys
\* a slot that is unconstructed or outside [0, capacity()).
C16_OnlyLiveSlotsTouched ==
  (Alive /\ ~ub) =>
     /\ \A i \in 0 .. (capacity(This) - 1) :
          Live(This, i) <=> (\E k \in 1 .. Len(LogicalSlots(This)) : LogicalSlots(This)[k] = i)
     /\ last.access_ok
     /\ size(This) > 0 =>
          /\ Live(This, first_span_.data)
          /\ Live(This, second_span_.data + second_span_.size - 1)

\* C17: after a successful growth every element of the old store has been
\* destroyed (so that the elements constructed and not yet destroyed are
\* size() many).
C17_OldElementsDestroyed ==
  last.grew => last.old_undestroyed = 0

\* C18: for an empty container of any capacity, begin() and end() designate
\* the same position.
C18_EmptyBeginIsEnd ==
  (Alive /\ ~ub /\ size(This) = 0) => begin(This).current = end(This).current

\* C19: for every non-empty container, a full one included, the position of
\* begin() differs from the position of end().
C19_NonEmptyBeginNotEnd ==
  (Alive /\ ~ub /\ size(This) > 0) => begin(This).current # end(This).current

\* What a pop leaves alone: no growth, capacity(), the other run, and every
\* slot but the one destroyed; a pop_front of a non-empty Front Run leaves
\* the other elements in their slots in order, and so does a pop_back of a
\* non-empty Back Run.
PopFrame ==
  /\ last'.op = "pop_front" =>
       /\ ~last'.allocated /\ capacity(This') = capacity(This)
       /\ second_span_' = second_span_
       /\ \A i \in 0 .. (capacity(This) - 1) :
            i # first_span_.data => SlotAt(This', i) = SlotAt(This, i)
       /\ first_span_.size > 0 => LogicalSlots(This') = Tail(LogicalSlots(This))
  /\ last'.op = "pop_back" =>
       /\ ~last'.allocated /\ capacity(This') = capacity(This)
       /\ first_span_' = first_span_
       /\ \A i \in 0 .. (capacity(This) - 1) :
            i # second_span_.data + second_span_.size - 1 => SlotAt(This', i) = SlotAt(This, i)
       /\ second_span_.size > 0 =>
            LogicalSlots(This') = SubSeq(LogicalSlots(This), 1, Len(LogicalSlots(This)) - 1)

\* C20 as stated: a pop at size() > 0 triggers no growth and changes only its
\* own end, and capacity() never decreases under any sequence of operations.
C20_PopFrameAnyOperation ==
  [][PopFrame /\ capacity(This') >= capacity(This)]_vars

\* C20 as amended: a pop at size() > 0 triggers no growth and changes only
\* its own end, and capacity() never decreases under any sequence of pushes,
\* pops and reserves (the source of a move-construction gives up its store).
C20_PopFrame ==
  [][PopFrame /\ (last'.op # "move" => capacity(This') >= capacity(This))]_vars

\* C20 witness: a pop_front has left a Front Run that still holds elements
\* next to a non-empty Back Run.
C20_Witness ==
  /\ last.op = "pop_front" /\ ~ub
  /\ first_span_.size > 0 /\ second_span_.size > 0
====
